---- MODULE Spec2Model ----
(***************************************************************************)
(* Media splitter worker: the segmentation arithmetic.                     *)
(*                                                                         *)
(*   SplitPolicy::split / get_parameters   src/src/split_policy.rs         *)
(*   Duration::to_millis                   src/src/duration.rs             *)
(*   generate_segments                     src/src/message.rs              *)
(*                                                                         *)
(* Every call is a run of the state machine: Init draws the arguments of   *)
(* one call, the actions execute it.  pc tells which function is running   *)
(* and where it stands.                                                    *)
(***************************************************************************)
EXTENDS Integers, Sequences, FiniteSets, TLC

\* ---------------------------------------------------------------- bounds
\* largest media duration (ms) given to split with a count or a ms policy
MaxMedia == 12
\* largest policy value for NumberOfSegments and SegmentDurationMilliSeconds
MaxValue == 13
\* largest policy value for SegmentDurationSeconds
MaxSeconds == 2
\* largest segment overlap (ms; units of 400 ms with a seconds policy)
MaxOverlap == 3
\* largest number_of_segments parameter given to generate_segments
MaxCount == 4

\* Option<T>: None is the empty sequence, Some(v) a one-element sequence.
None == <<>>
Some(v) == <<v>>
unwrap_or(o, default) == IF o = None THEN default ELSE o[1]

Min(a, b) == IF a <= b THEN a ELSE b
Max(a, b) == IF a >= b THEN a ELSE b

VARIABLES
  pc,                 \* which function runs and where it stands
  policy,             \* self of split: [kind, value]
  media_duration,     \* split's media_duration argument
  segment_overlap,    \* split's segment_overlap argument, Option<i64>
  segment_duration,   \* split: local, from get_parameters
  number_of_segments, \* split: local, from get_parameters
  segments,           \* split: the Vec<MediaSegment> being built
  next_start,         \* split: local cursor
  next_end,           \* split: local cursor
  index,              \* split: iterations of `for _ in 0..number_of_segments` done
  tm_self,            \* to_millis: self, a Duration [value, unit]
  tm_media_duration,  \* to_millis: the media_duration argument
  tm_millis,          \* to_millis: the returned u64
  parameters,         \* generate_segments: the MediaSplitterParameters
  gs_media_duration,  \* generate_segments: the media_duration argument
  total_duration,     \* generate_segments: local (the window)
  split_policy,       \* generate_segments: local, SplitPolicy::new(..)
  gs_segment_overlap, \* generate_segments: local segment_overlap, Option<u64>
  start_offset,       \* generate_segments: local
  gs_segments         \* generate_segments: the returned Vec<MediaSegment>

splitVars == <<policy, media_duration, segment_overlap, segment_duration,
               number_of_segments, segments, next_start, next_end, index>>

durationVars == <<tm_self, tm_media_duration, tm_millis>>

genVars == <<parameters, gs_media_duration, total_duration, split_policy,
             gs_segment_overlap, start_offset, gs_segments>>

vars == <<pc, policy, media_duration, segment_overlap, segment_duration,
          number_of_segments, segments, next_start, next_end, index,
          tm_self, tm_media_duration, tm_millis,
          parameters, gs_media_duration, total_duration, split_policy,
          gs_segment_overlap, start_offset, gs_segments>>

\* ------------------------------------------------- split_policy.rs: split
PolicyKinds == {"SegmentDurationSeconds", "SegmentDurationMilliSeconds", "NumberOfSegments"}

MediaSegment(start, end) == [start |-> start, end |-> end]

\* (a as f64 / b as f64).ceil() as u64.  Exact on the modelled range (both
\* operands far below 2^53).  0/0 is NaN and casts to 0.  x/0 with x > 0 is
\* +inf; no call of get_parameters produces it (a zero divisor is always a
\* copy of media_duration), so the case is left out and TLC would stop on it.
FCeilDiv(a, b) ==
  CASE b > 0 -> (a + b - 1) \div b
    [] b = 0 /\ a = 0 -> 0

\* get_parameters with the clamp of the count to media_duration left out
get_parameters_unclamped(self, media) ==
  CASE self.kind = "SegmentDurationSeconds" ->
         LET d == IF self.value = 0 THEN media ELSE self.value * 1000
         IN  <<d, FCeilDiv(media, d)>>
    [] self.kind = "SegmentDurationMilliSeconds" ->
         LET d == IF self.value = 0 THEN media ELSE self.value
         IN  <<d, FCeilDiv(media, d)>>
    [] self.kind = "NumberOfSegments" ->
         LET n == IF self.value = 0 THEN 1 ELSE self.value
         IN  <<FCeilDiv(media, n), n>>

\* get_parameters with a zero duration replaced by 1 ms, not by the media
get_parameters_zero_as_one(self, media) ==
  CASE self.kind = "SegmentDurationSeconds" ->
         LET d == IF self.value = 0 THEN 1 ELSE self.value * 1000
         IN  <<d, FCeilDiv(media, d)>>
    [] self.kind = "SegmentDurationMilliSeconds" ->
         LET d == IF self.value = 0 THEN 1 ELSE self.value
         IN  <<d, FCeilDiv(media, d)>>
    [] self.kind = "NumberOfSegments" ->
         LET n0 == IF self.value = 0 THEN 1 ELSE self.value
             n  == IF n0 >= media THEN media ELSE n0
         IN  <<FCeilDiv(media, n), n>>

\* get_parameters with the segment count rounded down, not up
get_parameters_floor(self, media) ==
  CASE self.kind = "SegmentDurationSeconds" ->
         LET d == IF self.value = 0 THEN media ELSE self.value * 1000
         IN  <<d, IF d = 0 THEN 0 ELSE media \div d>>
    [] self.kind = "SegmentDurationMilliSeconds" ->
         LET d == IF self.value = 0 THEN media ELSE self.value
         IN  <<d, IF d = 0 THEN 0 ELSE media \div d>>
    [] self.kind = "NumberOfSegments" ->
         LET n0 == IF self.value = 0 THEN 1 ELSE self.value
             n  == IF n0 >= media THEN media ELSE n0
         IN  <<FCeilDiv(media, n), n>>

\* get_parameters: (segment_duration, number_of_segments).  On the modelled
\* range `segment_duration *= 1000` stays far below 2^64.
get_parameters(self, media) ==
  CASE self.kind = "SegmentDurationSeconds" ->
         LET d == IF self.value = 0 THEN media ELSE self.value * 1000
         IN  <<d, FCeilDiv(media, d)>>
    [] self.kind = "SegmentDurationMilliSeconds" ->
         LET d == IF self.value = 0 THEN media ELSE self.value
         IN  <<d, FCeilDiv(media, d)>>
    [] self.kind = "NumberOfSegments" ->
         LET n0 == IF self.value = 0 THEN 1 ELSE self.value
             n  == IF n0 >= media THEN media ELSE n0
         IN  <<FCeilDiv(media, n), n>>

\* The unsigned subtractions of the loop body that would go below 0:
\* `segment_duration as u64 - 1` and `media_duration - 1`.
BodyTraps(end, duration, media) ==
  \/ duration = 0
  \/ (end + (duration - 1) >= media /\ media = 0)

\* lines 25-28 with the clamp to the last millisecond left out
SegmentEnd_unclamped(end, duration, media) == end + (duration - 1)

\* lines 25-28: the end of the segment pushed by this iteration
SegmentEnd(end, duration, media) ==
  LET e == end + (duration - 1)
  IN  IF e >= media THEN media - 1 ELSE e

\* `next_end < overlap` with overlap = segment_overlap.unwrap_or(0) as u64.
\* A negative i64 casts to 2^64 + o, at least 2^63 and so above every cursor
\* on the modelled range.
BelowOverlap(end, o) ==
  LET ov == unwrap_or(o, 0) IN IF ov < 0 THEN TRUE ELSE end < ov

\* lines 33-37 without the `next_end < overlap` branch
NextStart_unguarded(end, o) == end - unwrap_or(o, 0)

\* lines 33-37 starting the next segment on the previous end
NextStart_shared(end, o) ==
  IF BelowOverlap(end, o) THEN 0 ELSE (end - 1) - unwrap_or(o, 0)

\* lines 33-37: next_start from the cursor (next_end after `next_end += 1`)
NextStart(end, o) ==
  IF BelowOverlap(end, o) THEN 0 ELSE end - unwrap_or(o, 0)

SecondsMedia == {k * 500 + e : k \in 0..(2 * MaxSeconds + 1), e \in {0, 1}}

SplitCalls ==
  { <<[kind |-> k, value |-> v], m, o>> :
      k \in {"SegmentDurationMilliSeconds", "NumberOfSegments"},
      v \in 0..MaxValue, m \in 0..MaxMedia,
      o \in {None} \cup {Some(x) : x \in (-1)..MaxOverlap} }
  \cup
  { <<[kind |-> "SegmentDurationSeconds", value |-> v], m, o>> :
      v \in 0..MaxSeconds, m \in SecondsMedia,
      o \in {None} \cup {Some(400 * x) : x \in 0..MaxOverlap} }

\* ------------------------------------------------- u64 arithmetic, exact
\* A natural number is a sequence of base-256 digits, least significant
\* first; a u64 is eight of them.  The products of to_millis are computed on
\* these digits so that a product of 2^64 or more is seen to wrap.
Base == 256
U64Limbs == 8

RECURSIVE ToLimbs(_, _)
\* the k low digits of the small number n
ToLimbs(n, k) ==
  IF k = 0 THEN <<>> ELSE <<n % Base>> \o ToLimbs(n \div Base, k - 1)

U64(n) == ToLimbs(n, U64Limbs)

RECURSIVE Norm(_)
\* without its leading zero digits
Norm(a) ==
  IF a = <<>> THEN <<>>
  ELSE IF a[Len(a)] = 0 THEN Norm(SubSeq(a, 1, Len(a) - 1)) ELSE a

RECURSIVE MulSmall(_, _, _)
\* a * m + carry, for a small m
MulSmall(a, m, carry) ==
  IF a = <<>>
  THEN IF carry = 0 THEN <<>> ELSE <<carry % Base>> \o MulSmall(<<>>, m, carry \div Base)
  ELSE LET t == a[1] * m + carry
       IN  <<t % Base>> \o MulSmall(Tail(a), m, t \div Base)

RECURSIVE AddLimbs(_, _, _)
AddLimbs(a, b, carry) ==
  IF a = <<>> /\ b = <<>>
  THEN IF carry = 0 THEN <<>> ELSE <<carry>>
  ELSE LET x == IF a = <<>> THEN 0 ELSE a[1]
           y == IF b = <<>> THEN 0 ELSE b[1]
           t == x + y + carry
       IN  <<t % Base>> \o AddLimbs(IF a = <<>> THEN <<>> ELSE Tail(a),
                                    IF b = <<>> THEN <<>> ELSE Tail(b),
                                    t \div Base)

RECURSIVE MulLimbs(_, _)
\* a * b, every digit kept
MulLimbs(a, b) ==
  IF b = <<>> THEN <<>>
  ELSE AddLimbs(MulSmall(a, b[1], 0), <<0>> \o MulLimbs(a, Tail(b)), 0)

RECURSIVE DivSmall(_, _)
\* quotient and remainder of a by a small m > 0
DivSmall(a, m) ==
  IF a = <<>> THEN [q |-> <<>>, r |-> 0]
  ELSE LET hi  == DivSmall(Tail(a), m)
           cur == hi.r * Base + a[1]
       IN  [q |-> <<cur \div m>> \o hi.q, r |-> cur % m]

\* a does not fit in a u64
Overflows64(a) == Len(Norm(a)) > U64Limbs

\* a modulo 2^64, as a u64
Wrap64(a) ==
  [i \in 1..U64Limbs |-> IF i <= Len(a) THEN a[i] ELSE 0]

RECURSIVE LeqSameLen(_, _)
LeqSameLen(a, b) ==
  IF a = <<>> THEN TRUE
  ELSE IF a[Len(a)] # b[Len(b)] THEN a[Len(a)] < b[Len(b)]
  ELSE LeqSameLen(SubSeq(a, 1, Len(a) - 1), SubSeq(b, 1, Len(b) - 1))

LeqLimbs(a, b) ==
  LET x == Norm(a)
      y == Norm(b)
  IN  IF Len(x) # Len(y) THEN Len(x) < Len(y) ELSE LeqSameLen(x, y)

EqLimbs(a, b) == Norm(a) = Norm(b)

\* std::cmp::min on u64
MinLimbs(a, b) == IF LeqLimbs(a, b) THEN a ELSE b

\* stands for every value of 2^24 or more: above every duration of the model
OutOfRange == Base * Base * Base

\* the number a as an integer, on the modelled range
ToInt(a) ==
  LET x == Norm(a)
      digit(i) == IF i <= Len(x) THEN x[i] ELSE 0
  IN  IF Len(x) > 3 THEN OutOfRange
      ELSE digit(1) + Base * digit(2) + Base * Base * digit(3)

\* --------------------------------------------------- duration.rs: Duration
DurationUnits == {"Millisecond", "Second", "Percent"}

Duration(value, unit) == [value |-> value, unit |-> unit]

\* to_millis: the returned u64 when the u64 products wrap, and whether one
\* of them did (`attempt to multiply with overflow` with overflow checks on)
to_millis(self, media) ==
  CASE self.unit = "Millisecond" -> [overflow |-> FALSE, millis |-> self.value]
    [] self.unit = "Second" ->
         LET p == MulSmall(self.value, 1000, 0)
         IN  [overflow |-> Overflows64(p), millis |-> Wrap64(p)]
    [] self.unit = "Percent" ->
         LET p == MulLimbs(media, self.value)
         IN  [overflow |-> Overflows64(p),
              millis |-> Wrap64(DivSmall(Wrap64(p), 100).q)]

\* 2^64 - 1
U64Max == [i \in 1..U64Limbs |-> Base - 1]
\* 2^60
TwoTo60 == <<0, 0, 0, 0, 0, 0, 0, 16>>
\* 18446744073709552 = ceil(2^64 / 1000) and 18446744073709551, one below
FirstSecondsOverflow == <<240, 167, 198, 75, 55, 137, 65, 0>>
LastSecondsFit == <<239, 167, 198, 75, 55, 137, 65, 0>>

LargeU64 == {U64Max, TwoTo60, FirstSecondsOverflow, LastSecondsFit}

ToMillisValues == {U64(n) : n \in {0, 1, 5, 10, 100, 150}} \cup LargeU64
ToMillisMedia == {U64(n) : n \in {0, 1, 99, 666, 10000}} \cup {TwoTo60, U64Max}

\* ------------------- split with a seconds policy anywhere in the u64 range
\* 2^61: 2^61 * 1000 is a multiple of 2^64
TwoTo61 == <<0, 0, 0, 0, 0, 0, 0, 32>>

\* seconds values around the first one whose product with 1000 reaches 2^64
SecondsU64Values ==
  {U64(0), U64(1), LastSecondsFit, FirstSecondsOverflow, TwoTo61, U64Max}

\* get_parameters, arm SegmentDurationSeconds (lines 45-54), with the value
\* and the product written in digits.  overflow: `segment_duration *= 1000`
\* reached 2^64.  The count is ceil(media / duration) in f64 cast to u64: a
\* duration above the media gives 1 (0 for an empty media), 0/0 is NaN and
\* casts to 0, and media/0 is +inf and casts to u64::MAX (unbounded).
get_parameters_u64(self, media) ==
  LET p == MulSmall(self.value, 1000, 0)
      zero == EqLimbs(self.value, U64(0))
      d == IF zero THEN U64(media) ELSE Wrap64(p)
      small == ToInt(d) < OutOfRange
  IN  [overflow |-> ~zero /\ Overflows64(p),
       segment_duration |-> d,
       unbounded |-> EqLimbs(d, U64(0)) /\ media > 0,
       number_of_segments |->
         IF EqLimbs(d, U64(0)) THEN 0
         ELSE IF small THEN FCeilDiv(media, ToInt(d))
         ELSE IF media = 0 THEN 0 ELSE 1]

\* --------------------------------------- message.rs: generate_segments
DurationPositions == {"Start", "End"}

\* lines 43-56 without `min(.., media_duration)` on the duration
TotalDuration_unclamped(params, media) ==
  LET D  == U64(media)
      w1 == IF params.duration # None
            THEN to_millis(params.duration[1], D).millis
            ELSE D
      w2 == IF params.max_duration # None
            THEN MinLimbs(to_millis(params.max_duration[1], D).millis, w1)
            ELSE w1
  IN  ToInt(w2)

\* lines 43-56 with max_duration replacing the window instead of bounding it
TotalDuration_replaced(params, media) ==
  LET D  == U64(media)
      w1 == IF params.duration # None
            THEN MinLimbs(to_millis(params.duration[1], D).millis, D)
            ELSE D
      w2 == IF params.max_duration # None
            THEN MinLimbs(to_millis(params.max_duration[1], D).millis, D)
            ELSE w1
  IN  ToInt(w2)

\* lines 43-56: total_duration
TotalDuration(params, media) ==
  LET D  == U64(media)
      w1 == IF params.duration # None
            THEN MinLimbs(to_millis(params.duration[1], D).millis, D)
            ELSE D
      w2 == IF params.max_duration # None
            THEN MinLimbs(to_millis(params.max_duration[1], D).millis, w1)
            ELSE w1
  IN  ToInt(w2)

\* lines 60-63: segment_overlap, Option<u64>
SegmentOverlap(params, media) ==
  IF params.overlap = None THEN None
  ELSE Some(ToInt(to_millis(params.overlap[1], U64(media)).millis))

\* a to_millis call of lines 43-63 multiplies with overflow
WindowOverflows(params, media) ==
  \E f \in {"duration", "max_duration", "overlap"} :
    params[f] # None /\ to_millis(params[f][1], U64(media)).overflow

\* line 67 evaluated with total above media_duration
OffsetUnderflows(position, media, total) == position = "End" /\ total > media

\* lines 65-68 with the window measured from the wrong end
StartOffset_swapped(position, media, total) ==
  IF position = "Start" THEN media - total ELSE 0

\* lines 65-68: start_offset
StartOffset(position, media, total) ==
  IF position = "Start" THEN 0 ELSE media - total


\* -------------------------- the split policy generate_segments calls
\* SplitPolicy::new(parameters, total_duration) and the three-argument
\* split(total_duration, start_offset, segment_overlap) are called at
\* message.rs lines 58 and 70; they are modelled from the specification
\* (sections 3 and 4.3).

\* the configuration: desired count and optional minimum duration in ms
SplitPolicy_new(params, total) ==
  [segment_count |-> params.number_of_segments,
   min_segment_duration |->
     IF params.min_segment_duration = None THEN None
     ELSE Some(ToInt(to_millis(params.min_segment_duration[1], U64(total)).millis))]

\* step 1 with the minimum duration ignored
EffectiveCount_nomin(config, total) == Min(config.segment_count, total)

\* step 1: the effective segment count N
EffectiveCount(config, total) ==
  LET m  == unwrap_or(config.min_segment_duration, 0)
      n1 == IF m > 0 THEN Min(config.segment_count, total \div m)
            ELSE config.segment_count
  IN  Min(n1, total)

RECURSIVE EmitSegments(_, _, _, _, _, _, _)
\* step 2, from iteration i on
EmitSegments(i, n, start, end, total, offset, overlap) ==
  IF i >= n THEN <<>>
  ELSE LET remaining == total - end
           length    == IF remaining = n - i THEN 1 ELSE remaining \div (n - i)
           e         == Min(end + length, total)
           seg       == MediaSegment(start + offset, e + offset)
       IN  IF e = total THEN <<seg>>
           ELSE <<seg>> \o EmitSegments(i + 1, n, Max(e - overlap, 0), e,
                                        total, offset, overlap)

\* split(total_duration, start_offset, segment_overlap)
SplitPolicy_split(config, total, offset, o) ==
  EmitSegments(0, EffectiveCount(config, total), 0, 0, total, offset,
               unwrap_or(o, 0))

GenValues == {U64(1), U64(50), U64Max}
GenDurations == {Duration(v, u) : v \in GenValues, u \in DurationUnits}
GenOverlaps == {Duration(U64(2), "Millisecond"), Duration(U64Max, "Second")}
\* the minimum is given in milliseconds, so that its reference is immaterial
GenMinimums == {Duration(U64(v), "Millisecond") : v \in {0, 3, 40}}
GenMedia == {0, 1, 10, 2000}
Optional(S) == {None} \cup {Some(x) : x \in S}

GenParameters ==
  [duration : Optional(GenDurations),
   max_duration : Optional(GenDurations),
   overlap : Optional(GenOverlaps),
   min_segment_duration : Optional(GenMinimums),
   number_of_segments : 0..MaxCount,
   duration_position : DurationPositions]

\* ----------------------------------------------------------------- Init
SplitIdle ==
  /\ policy = [kind |-> "NumberOfSegments", value |-> 0]
  /\ media_duration = 0
  /\ segment_overlap = None

SplitLocalsInit ==
  /\ segment_duration = 0
  /\ number_of_segments = 0
  /\ segments = <<>>
  /\ next_start = 0
  /\ next_end = 0
  /\ index = 0

DurationIdle ==
  /\ tm_self = Duration(U64(1), "Second")
  /\ tm_media_duration = U64(0)
  /\ tm_millis = U64(0)

GenLocalsInit ==
  /\ total_duration = 0
  /\ split_policy = None
  /\ gs_segment_overlap = None
  /\ start_offset = 0
  /\ gs_segments = <<>>

GenIdle ==
  /\ parameters = None
  /\ gs_media_duration = 0
  /\ GenLocalsInit

InitSplit ==
  /\ pc = "split"
  /\ \E c \in SplitCalls :
       /\ policy = c[1]
       /\ media_duration = c[2]
       /\ segment_overlap = c[3]
  /\ SplitLocalsInit
  /\ DurationIdle
  /\ GenIdle

InitToMillis ==
  /\ pc = "to_millis"
  /\ tm_self \in {Duration(v, u) : v \in ToMillisValues, u \in DurationUnits}
  /\ tm_media_duration \in ToMillisMedia
  /\ tm_millis = U64(0)
  /\ SplitIdle
  /\ SplitLocalsInit
  /\ GenIdle

InitGenerate ==
  /\ pc = "generate_segments"
  /\ parameters \in GenParameters
  /\ gs_media_duration \in GenMedia
  /\ GenLocalsInit
  /\ SplitIdle
  /\ SplitLocalsInit
  /\ DurationIdle

\* a call of split with a seconds policy whose value is written in digits
InitSplitU64 ==
  /\ pc = "split_u64"
  /\ policy \in {[kind |-> "SegmentDurationSeconds", value |-> v] : v \in SecondsU64Values}
  /\ media_duration \in SecondsMedia
  /\ segment_overlap \in {None} \cup {Some(400 * x) : x \in 0..MaxOverlap}
  /\ SplitLocalsInit
  /\ DurationIdle
  /\ GenIdle

\* ------------------------------------------------------- split, stepwise
\* lines 16-22
SplitEnter ==
  /\ pc = "split"
  /\ LET p == get_parameters(policy, media_duration)
     IN  /\ segment_duration' = p[1]
         /\ number_of_segments' = p[2]
  /\ segments' = <<>>
  /\ next_start' = 0
  /\ next_end' = 0
  /\ index' = 0
  /\ pc' = "split_loop"
  /\ UNCHANGED <<policy, media_duration, segment_overlap, durationVars, genVars>>

\* lines 16-22 for a seconds policy in digits.  `segment_duration *= 1000`
\* (line 50) panics on overflow with overflow checks on and wraps without
\* them; Vec::with_capacity (line 20) panics with `capacity overflow` when
\* the count is u64::MAX.  A duration of 2^24 ms or more is kept as
\* OutOfRange: it is above every media duration, so line 26 clamps.
SplitEnterU64 ==
  /\ pc = "split_u64"
  /\ LET p == get_parameters_u64(policy, media_duration)
     IN  \E overflow_checks \in BOOLEAN :
           IF p.overflow /\ overflow_checks
           THEN /\ pc' = "split_overflow_panicked"
                /\ UNCHANGED <<segment_duration, number_of_segments>>
           ELSE IF p.unbounded
           THEN /\ pc' = "split_capacity_panicked"
                /\ UNCHANGED <<segment_duration, number_of_segments>>
           ELSE /\ pc' = "split_loop"
                /\ segment_duration' = ToInt(p.segment_duration)
                /\ number_of_segments' = p.number_of_segments
  /\ segments' = <<>>
  /\ next_start' = 0
  /\ next_end' = 0
  /\ index' = 0
  /\ UNCHANGED <<policy, media_duration, segment_overlap, durationVars, genVars>>

\* lines 24-38, one iteration.  An unsigned subtraction below 0 panics with
\* overflow checks on and wraps to a value near 2^64 without them; the run
\* stops there in either build.
SplitIterate ==
  /\ pc = "split_loop"
  /\ index < number_of_segments
  /\ IF BodyTraps(next_end, segment_duration, media_duration)
     THEN /\ pc' \in {"split_panicked", "split_wrapped"}
          /\ UNCHANGED splitVars
     ELSE LET e == SegmentEnd(next_end, segment_duration, media_duration)
          IN  /\ segments' = Append(segments, MediaSegment(next_start, e))
              /\ next_end' = e + 1
              /\ next_start' = NextStart(e + 1, segment_overlap)
              /\ index' = index + 1
              /\ pc' = "split_loop"
              /\ UNCHANGED <<policy, media_duration, segment_overlap,
                             segment_duration, number_of_segments>>
  /\ UNCHANGED <<durationVars, genVars>>

\* line 40
SplitReturn ==
  /\ pc = "split_loop"
  /\ index = number_of_segments
  /\ pc' = "split_ok"
  /\ UNCHANGED <<splitVars, durationVars, genVars>>

\* ------------------------------------------------------------ to_millis
\* duration.rs lines 21-27.  A product of 2^64 or more panics with overflow
\* checks on (debug profile) and wraps without them (release profile).
ToMillis ==
  /\ pc = "to_millis"
  /\ LET r == to_millis(tm_self, tm_media_duration)
     IN  \E overflow_checks \in BOOLEAN :
           IF r.overflow /\ overflow_checks
           THEN /\ pc' = "to_millis_panicked"
                /\ UNCHANGED tm_millis
           ELSE /\ pc' = "to_millis_done"
                /\ tm_millis' = r.millis
  /\ UNCHANGED <<tm_self, tm_media_duration, splitVars, genVars>>

\* ---------------------------------------------------- generate_segments
\* message.rs lines 39-71.  A to_millis product of 2^64 or more panics with
\* overflow checks on and wraps without them; `media_duration -
\* total_duration` below 0 panics or wraps to a value near 2^64, and the run
\* stops there in either build.
GenerateSegments ==
  /\ pc = "generate_segments"
  /\ LET total  == TotalDuration(parameters, gs_media_duration)
         config == SplitPolicy_new(parameters, total)
         ov     == SegmentOverlap(parameters, gs_media_duration)
         offset == StartOffset(parameters.duration_position, gs_media_duration, total)
     IN  \E overflow_checks \in BOOLEAN :
           IF overflow_checks /\ WindowOverflows(parameters, gs_media_duration)
           THEN /\ pc' = "generate_segments_panicked"
                /\ UNCHANGED <<total_duration, split_policy, gs_segment_overlap,
                               start_offset, gs_segments>>
           ELSE IF OffsetUnderflows(parameters.duration_position, gs_media_duration, total)
           THEN /\ pc' = "generate_segments_underflow"
                /\ total_duration' = total
                /\ split_policy' = config
                /\ gs_segment_overlap' = ov
                /\ UNCHANGED <<start_offset, gs_segments>>
           ELSE /\ pc' = "generate_segments_ok"
                /\ total_duration' = total
                /\ split_policy' = config
                /\ gs_segment_overlap' = ov
                /\ start_offset' = offset
                /\ gs_segments' = SplitPolicy_split(config, total, offset, ov)
  /\ UNCHANGED <<parameters, gs_media_duration, splitVars, durationVars>>

Init ==
  \/ InitSplit
  \/ InitSplitU64
  \/ InitToMillis
  \/ InitGenerate

Next ==
  \/ SplitEnter
  \/ SplitEnterU64
  \/ SplitIterate
  \/ SplitReturn
  \/ ToMillis
  \/ GenerateSegments

Spec == Init /\ [][Next]_vars

\* the calls of one function at a time
NextSplit ==
  \/ SplitEnter
  \/ SplitIterate
  \/ SplitReturn

SplitSpec == InitSplit /\ [][NextSplit]_vars

\* split over both ranges of policy values
InitSplitAny ==
  \/ InitSplit
  \/ InitSplitU64

NextSplitAny ==
  \/ SplitEnter
  \/ SplitEnterU64
  \/ SplitIterate
  \/ SplitReturn

SplitAnySpec == InitSplitAny /\ [][NextSplitAny]_vars

NextToMillis == ToMillis

ToMillisSpec == InitToMillis /\ [][NextToMillis]_vars

NextGenerate == GenerateSegments

GenerateSpec == InitGenerate /\ [][NextGenerate]_vars

\* ------------------------------------------------------------ properties
NoOverlap == unwrap_or(segment_overlap, 0) = 0
Returned == pc = "split_ok"
ByCount == policy.kind = "NumberOfSegments"
Last(s) == s[Len(s)]

C3_WellFormed ==
  \A i \in 1..Len(segments) :
    0 <= segments[i].start /\ segments[i].start <= segments[i].end

\* C4: splitting by count with segment_count >= 1 returns
\* min(segment_count, total_duration) segments, for every total_duration and
\* every overlap.
C4_SegmentCount ==
  (Returned /\ ByCount /\ policy.value >= 1)
    => Len(segments) = Min(policy.value, media_duration)

C4_Witness ==
  /\ Returned /\ ByCount
  /\ policy.value > media_duration /\ media_duration >= 2
  /\ segment_overlap = Some(1)
  /\ Len(segments) = media_duration

\* C5: with segment_count >= total_duration > 0 and no overlap, the i-th
\* returned segment (counted from 0) has start = end = i.
C5_OneMillisecondEach ==
  (Returned /\ ByCount /\ policy.value >= media_duration /\ media_duration > 0 /\ NoOverlap)
    => \A i \in 1..Len(segments) :
         segments[i].start = i - 1 /\ segments[i].end = i - 1

C5_Witness ==
  /\ Returned /\ ByCount /\ NoOverlap
  /\ policy.value = MaxValue /\ media_duration = 5
  /\ Len(segments) = 5
  /\ segments[5] = MediaSegment(4, 4)

\* C6: with an overlap o >= 0, every segment after the first starts at
\* max(c - o, 0), c being the previous segment's end + 1; the start is never
\* negative.
C6_OverlapClamped ==
  unwrap_or(segment_overlap, 0) >= 0
    => \A i \in 2..Len(segments) :
         /\ segments[i].start =
              Max(segments[i - 1].end + 1 - unwrap_or(segment_overlap, 0), 0)
         /\ segments[i].start >= 0

C6_Witness ==
  /\ Returned
  /\ segment_overlap = Some(3)
  /\ Len(segments) >= 3
  /\ segments[1].end + 1 < 3
  /\ segments[2].start = 0
  /\ segments[3].start > 0

\* the value the claim C7 gives for to_millis, computed without a width
ExactMillis(self, reference) ==
  CASE self.unit = "Millisecond" -> self.value
    [] self.unit = "Second" -> MulSmall(self.value, 1000, 0)
    [] self.unit = "Percent" -> DivSmall(MulLimbs(reference, self.value), 100).q

\* C7: to_millis returns, for every value and reference, value
\* (Millisecond), value * 1000 (Second) or floor(reference * value / 100)
\* (Percent), the mathematically exact result; it does not fail.
C7_ExactMillis ==
  /\ pc # "to_millis_panicked"
  /\ pc = "to_millis_done" => EqLimbs(tm_millis, ExactMillis(tm_self, tm_media_duration))

GenReturned == pc = "generate_segments_ok"
WithoutMax(params) == [params EXCEPT !.max_duration = None]

\* C8: the window generate_segments hands to the split policy is
\* min(duration.to_millis(D) if present else D, D), reduced to
\* min(max_duration.to_millis(D), window) if max_duration is present; it is
\* at most D, and at most the window of the same parameters without
\* max_duration.
C8_Window ==
  GenReturned =>
    LET D  == U64(gs_media_duration)
        w  == IF parameters.duration = None THEN D
              ELSE MinLimbs(to_millis(parameters.duration[1], D).millis, D)
        wm == IF parameters.max_duration = None THEN w
              ELSE MinLimbs(to_millis(parameters.max_duration[1], D).millis, w)
    IN  /\ EqLimbs(U64(total_duration), wm)
        /\ total_duration <= gs_media_duration
        /\ total_duration <= TotalDuration(WithoutMax(parameters), gs_media_duration)

C8_Witness ==
  /\ GenReturned
  /\ parameters.duration = Some(Duration(U64(50), "Second"))
  /\ parameters.max_duration = Some(Duration(U64(50), "Millisecond"))
  /\ gs_media_duration = 2000
  /\ total_duration = 50
  /\ TotalDuration(WithoutMax(parameters), gs_media_duration) = 2000

ByDuration == policy.kind \in {"SegmentDurationSeconds", "SegmentDurationMilliSeconds"}
\* the fixed duration d of the claim C12, in ms
FixedDuration ==
  IF policy.kind = "SegmentDurationSeconds" THEN policy.value * 1000 ELSE policy.value

C13_Total ==
  unwrap_or(segment_overlap, 0) >= 0
    => /\ pc \notin {"split_overflow_panicked", "split_capacity_panicked",
                     "split_panicked", "split_wrapped"}
       /\ (media_duration = 0 /\ pc \in {"split_loop", "split_ok"})
            => (number_of_segments = 0 /\ segments = <<>>)

\* the part of C13 about the subtractions and the empty media alone
SubtractionsStayUnsigned ==
  /\ pc \notin {"split_panicked", "split_wrapped"}
  /\ (media_duration = 0 /\ pc \in {"split_loop", "split_ok"})
       => (number_of_segments = 0 /\ segments = <<>>)

====
